---- MODULE Spec2Model ----
(***************************************************************************)
(* MarketFace-web3: an Express backend that mints and evolves NFTs whose   *)
(* metadata lives on Pinata IPFS.  The repository holds two variants of    *)
(* the server: src/unnamed/part_000 (JSON evolve, mint returns tokenId)    *)
(* and src/index.js (file-based evolve).  Both talk to the same deployed   *)
(* contract through one ethers Wallet.                                     *)
(*                                                                         *)
(* JavaScript strings are sequences of code points; `undefined` is the     *)
(* one-element sequence <<-1>>, which is no string.                        *)
(*                                                                         *)
(* Each await of a handler is a step boundary.  A contract call is two     *)
(* steps, as in ethers: populate (estimate gas, read the wallet's pending  *)
(* nonce) and broadcast; a broadcast whose nonce is taken is refused.  The *)
(* ledger executes the wallet's transactions in nonce order, when it       *)
(* chooses to, and may revert any of them.  The contract is known by its   *)
(* interface only: it stores what it is given, reverts on an unknown token *)
(* id, and numbers new tokens consecutively.                               *)
(***************************************************************************)
EXTENDS Integers, Sequences, FiniteSets, TLC

\* ---------------------------------------------------------------- bounds
NumReqs == 2      \* requests the server handles at the same time
MaxTx == 2        \* transactions the wallet broadcasts in one run

Reqs == 1..NumReqs

\* ------------------------------------------------------- values and text
Undefined == <<-1>>
EmptyStr == <<>>

\* JavaScript truthiness of a request field (string or undefined)
Truthy(v) == v # Undefined /\ v # EmptyStr

\* "ipfs://"
IpfsScheme == <<105, 112, 102, 115, 58, 47, 47>>
\* `ipfs://${cid}`
IpfsUri(cid) == IpfsScheme \o cid
\* "unknown"
UnknownStr == <<117, 110, 107, 110, 111, 119, 110>>

\* the recipient address 0xA.. of a request, "0xA"
AddrA == <<48, 120, 65>>
\* reference strings a caller posts: "a", and "é" (two UTF-8 bytes)
UriA == <<97>>
UriE == <<233>>

ToValues == {Undefined, EmptyStr, AddrA}
UriValues == {Undefined, EmptyStr, UriA, UriE}
\* what a caller of POST /mint posts as metadataUri
MintUriValues == {Undefined, EmptyStr, UriA}

\* ethers.toUtf8Bytes: the UTF-8 encoding of a string of code points < 65536
Utf8Of(c) ==
  IF c < 128 THEN <<c>>
  ELSE IF c < 2048 THEN <<192 + (c \div 64), 128 + (c % 64)>>
  ELSE <<224 + (c \div 4096), 128 + ((c \div 64) % 64), 128 + (c % 64)>>

RECURSIVE toUtf8Bytes(_)
toUtf8Bytes(s) ==
  IF s = <<>> THEN <<>> ELSE Utf8Of(Head(s)) \o toUtf8Bytes(Tail(s))

\* ethers.keccak256: a collision-free digest of a byte string
keccak256(bytes) == [k256 |-> bytes]

\* the commitment hash mintNFT and evolveNFT compute for a reference
HashBinder(metadataUri) == keccak256(toUtf8Bytes(metadataUri))

\* BigInt.prototype.toString: decimal digits of a natural number
RECURSIVE toDecimal(_)
toDecimal(n) ==
  IF n < 10 THEN <<48 + n>> ELSE toDecimal(n \div 10) \o <<48 + (n % 10)>>

IsDigits(s) == s # <<>> /\ \A i \in 1..Len(s) : s[i] \in 48..57

RECURSIVE digitsValue(_)
digitsValue(s) ==
  IF s = <<>> THEN 0 ELSE 10 * digitsValue(SubSeq(s, 1, Len(s) - 1)) + (s[Len(s)] - 48)

\* ethers' uint256 coercion of the :tokenId path parameter; -1 when it throws
getBigInt(s) == IF IsDigits(s) THEN digitsValue(s) ELSE -1

\* path parameters a caller uses for :tokenId: "1", "2"
TidValues == {toDecimal(1), toDecimal(2)}

\* ------------------------------------------------------------------ state
VARIABLES
  variant,   \* which server file is running: "part_000" or "index"
  req,       \* per request slot: the handler's locals, position and response
  txs,       \* transactions the wallet has broadcast, in nonce order
  mined,     \* how many of txs the ledger has executed
  records,   \* the contract's tokens: records[id] = [owner, uri, hash]
  pinned     \* content identifiers the Pinata store holds

vars == <<variant, req, txs, mined, records, pinned>>

NoHash == [k256 |-> <<-1>>]

\* the JSON body and status a handler has sent (absent fields are Undefined)
NoResp ==
  [status |-> 0, success |-> "none", error |-> "none", txHash |-> 0,
   tokenId |-> Undefined, metadataUri |-> Undefined, uri |-> Undefined,
   imageCid |-> Undefined, metadataCid |-> Undefined]

IdleReq ==
  [kind |-> "none", pc |-> "idle", to |-> Undefined, uri |-> Undefined,
   tid |-> Undefined, hash |-> NoHash, nonce |-> 0, tx |-> 0,
   file |-> Undefined, attributes |-> Undefined, imageCid |-> Undefined,
   resp |-> NoResp]

\* res.status(code).json(body): the handler answers and ends; what is kept
\* of the request is what it asked for and its transaction
Respond(r, body) ==
  [req EXCEPT ![r] = [IdleReq EXCEPT
     !.kind = req[r].kind, !.pc = "done", !.to = req[r].to, !.uri = req[r].uri,
     !.tid = req[r].tid, !.hash = req[r].hash, !.tx = req[r].tx,
     !.resp = body]]

\* the slot is the one the next request takes: the lowest that holds none
Free(r) == req[r].pc = "idle" /\ \A q \in 1..(r - 1) : req[q].pc # "idle"

\* requests whose contract call has not reached the node yet
Sending ==
  {q \in Reqs : \/ req[q].pc \in {"populate", "broadcast"}
                \/ req[q].kind = "evolveFile" /\ req[q].pc \in {"pinFile", "pinJSON"}}

\* room for one more broadcast within MaxTx
CanSend == Len(txs) + Cardinality(Sending) < MaxTx

\* token 1, which the deployed contract holds when the server starts: minted
\* through this program in an earlier run
GenesisRecord == [owner |-> AddrA, uri |-> UriE, hash |-> HashBinder(UriE)]

Init ==
  /\ variant \in {"part_000", "index"}
  /\ req = [r \in Reqs |-> IdleReq]
  /\ txs = <<>>
  /\ mined = 0
  /\ records = <<GenesisRecord>>
  /\ pinned = {}

\* ------------------------------------------------------------- the ledger
\* README, Smart Contract Assumptions: safeMint(to, metadataUri, hash),
\* commitEvolution(tokenId, metadataUri, hash), tokenURI(tokenId)

\* does the contract hold token id
Exists(id) == id \in 1..Len(records)

\* contract.tokenURI(tokenId): the stored reference, Undefined when it reverts
tokenURI(tid) ==
  IF Exists(getBigInt(tid)) THEN records[getBigInt(tid)].uri ELSE Undefined

\* getTokenURI(tokenId)
getTokenURI(tid) == tokenURI(tid)

\* the event logs a successful safeMint receipt can carry for token id: the
\* Transfer event first, after another event, or no decodable Transfer at all
TransferLog(id) == [name |-> "Transfer", tokenId |-> id]
OtherLog == [name |-> "Other", tokenId |-> 0]
MintLogs(id) == {<<TransferLog(id)>>, <<OtherLog, TransferLog(id)>>, <<OtherLog>>}

\* the state transition of a transaction the ledger executes
safeMint(t) == Append(records, [owner |-> t.to, uri |-> t.uri, hash |-> t.hash])
commitEvolution(t) ==
  [records EXCEPT ![t.tokenId] = [owner |-> @.owner, uri |-> t.uri, hash |-> t.hash]]

\* a call sent with a fixed gas limit, which skips eth_estimateGas
EstimateSkipped(q) == FALSE

\* eth_estimateGas of a call against the current state: does it revert
EstimateReverts(q) ==
  q.kind \in {"evolve", "evolveFile"} /\ ~Exists(getBigInt(q.tid))

\* the ledger executes the next broadcast transaction, in nonce order
Mine ==
  /\ mined < Len(txs)
  /\ LET n == mined + 1
         t == txs[n]
     IN \/ /\ t.fn = "safeMint"
           /\ \E logs \in MintLogs(Len(records) + 1) :
                txs' = [txs EXCEPT ![n].status = "success", ![n].logs = logs,
                                   ![n].assigned = Len(records) + 1]
           /\ records' = safeMint(t)
        \/ /\ t.fn = "commitEvolution"
           /\ Exists(t.tokenId)
           /\ txs' = [txs EXCEPT ![n].status = "success"]
           /\ records' = commitEvolution(t)
        \/ /\ txs' = [txs EXCEPT ![n].status = "reverted"]
           /\ records' = records
  /\ mined' = mined + 1
  /\ UNCHANGED <<variant, req, pinned>>

\* ------------------------------------------- ethers contract method calls
\* err.message of what a contract call or tx.wait() throws
ErrNetwork == "could not detect network"
ErrReverted == "execution reverted"
ErrNonce == "nonce has already been used"

\* the body of each handler's catch block for err.message = msg
\* (part_000 /mint and index.js /mint omit the success field)
CatchBody(q, msg) ==
  IF q.kind = "mint"
  THEN [NoResp EXCEPT !.status = 500, !.error = msg]
  ELSE [NoResp EXCEPT !.status = 500, !.success = "false", !.error = msg]

\* a contract call that prefixes the reference with "ipfs://"
TxOfPrefixed(q) ==
  [fn |-> IF q.kind = "mint" THEN "safeMint" ELSE "commitEvolution",
   to |-> q.to,
   tokenId |-> IF q.kind = "mint" THEN 0 ELSE getBigInt(q.tid),
   uri |-> IpfsUri(q.uri), hash |-> q.hash, status |-> "pending", logs |-> <<>>,
   assigned |-> 0]

\* the transaction a request's contract call signs
TxOf(q) ==
  [fn |-> IF q.kind = "mint" THEN "safeMint" ELSE "commitEvolution",
   to |-> q.to,
   tokenId |-> IF q.kind = "mint" THEN 0 ELSE getBigInt(q.tid),
   uri |-> q.uri, hash |-> q.hash, status |-> "pending", logs |-> <<>>,
   assigned |-> 0]

\* contract.safeMint(...) / contract.commitEvolution(...), first half: the
\* wallet populates the transaction (encode arguments, eth_estimateGas,
\* pending nonce of the shared wallet); any failure is thrown to the handler
ContractPopulate(r) ==
  /\ req[r].pc = "populate"
  /\ \/ req' = Respond(r, CatchBody(req[r], ErrNetwork))
     \/ /\ EstimateReverts(req[r])
        /\ req' = Respond(r, CatchBody(req[r], ErrReverted))
     \/ /\ ~EstimateReverts(req[r])
        /\ req' = [req EXCEPT ![r].pc = "broadcast", ![r].nonce = Len(txs)]
  /\ UNCHANGED <<variant, txs, mined, records, pinned>>

\* second half: sign and eth_sendRawTransaction; the node refuses a nonce
\* another transaction of the wallet already took
ContractBroadcast(r) ==
  /\ req[r].pc = "broadcast"
  /\ \/ /\ req[r].nonce = Len(txs)
        /\ txs' = Append(txs, TxOf(req[r]))
        /\ req' = [req EXCEPT ![r].pc = "wait", ![r].tx = Len(txs) + 1]
     \/ /\ req[r].nonce # Len(txs)
        /\ req' = Respond(r, CatchBody(req[r], ErrNonce))
        /\ txs' = txs
  /\ UNCHANGED <<variant, mined, records, pinned>>

\* has the request's transaction a receipt
Mined(q) == q.tx \in 1..mined

\* --------------------------------------------------- part_000: POST /mint
\* a check that forgets `to`
MintValidUriOnly(to, metadataUri) == Truthy(metadataUri)

\* if (!to || !metadataUri) return 400
MintValid(to, metadataUri) == Truthy(to) /\ Truthy(metadataUri)

\* mintNFT hashing the recipient instead of the reference
MintHashOfRecipient(to, metadataUri) == HashBinder(to)

\* the hash mintNFT passes to safeMint
MintHash(to, metadataUri) == HashBinder(metadataUri)

MintBadRequest ==
  [NoResp EXCEPT !.status = 400, !.error = "to and metadataUri are required"]

MintReceive(r, to, metadataUri) ==
  /\ variant = "part_000"
  /\ Free(r)
  /\ IF ~MintValid(to, metadataUri)
     THEN req' = [req EXCEPT ![r] = [IdleReq EXCEPT
                    !.kind = "mint", !.pc = "done", !.to = to,
                    !.uri = metadataUri, !.resp = MintBadRequest]]
     ELSE /\ CanSend
          /\ req' = [req EXCEPT ![r] = [IdleReq EXCEPT
                       !.kind = "mint", !.pc = "populate", !.to = to,
                       !.uri = metadataUri,
                       !.hash = MintHash(to, metadataUri)]]
  /\ UNCHANGED <<variant, txs, mined, records, pinned>>

\* receipt.logs.find(log => log.fragment?.name === "Transfer"): 0 when none
RECURSIVE FindTransfer(_)
FindTransfer(logs) ==
  IF logs = <<>> THEN 0
  ELSE IF Head(logs).name = "Transfer" THEN Head(logs).tokenId
  ELSE FindTransfer(Tail(logs))

\* event ? ethers.getBigInt(event.args.tokenId).toString() : "unknown"
MintTokenId(logs) ==
  IF FindTransfer(logs) # 0 THEN toDecimal(FindTransfer(logs)) ELSE UnknownStr

\* the result object mintNFT returns, sent by res.json(result)
MintResult(q, t) ==
  [NoResp EXCEPT !.status = 200, !.success = "true", !.txHash = q.tx,
                 !.tokenId = MintTokenId(t.logs), !.metadataUri = q.uri]

\* a mintNFT that calls itself again when tx.wait() throws
MintWaitRetry(r) ==
  /\ variant = "part_000"
  /\ req[r].kind = "mint"
  /\ req[r].pc = "wait"
  /\ Mined(req[r])
  /\ req' = IF txs[req[r].tx].status = "success"
            THEN Respond(r, MintResult(req[r], txs[req[r].tx]))
            ELSE IF CanSend
            THEN [req EXCEPT ![r].pc = "populate"]
            ELSE Respond(r, CatchBody(req[r], ErrReverted))
  /\ UNCHANGED <<variant, txs, mined, records, pinned>>

\* await tx.wait() returns or throws; the handler answers
MintWait(r) ==
  /\ variant = "part_000"
  /\ req[r].kind = "mint"
  /\ req[r].pc = "wait"
  /\ Mined(req[r])
  /\ req' = Respond(r,
       IF txs[req[r].tx].status = "success"
       THEN MintResult(req[r], txs[req[r].tx])
       ELSE CatchBody(req[r], ErrReverted))
  /\ UNCHANGED <<variant, txs, mined, records, pinned>>

\* ------------------------------------------ part_000: POST /evolve/:tokenId
EvolveValid(metadataUri) == Truthy(metadataUri)

\* the hash evolveNFT passes to commitEvolution
EvolveHash(tokenId, metadataUri) == HashBinder(metadataUri)

EvolveBadRequest ==
  [NoResp EXCEPT !.status = 400, !.error = "metadataUri is required"]

EvolveReceive(r, tokenId, metadataUri) ==
  /\ variant = "part_000"
  /\ Free(r)
  /\ IF ~EvolveValid(metadataUri)
     THEN req' = [req EXCEPT ![r] = [IdleReq EXCEPT
                    !.kind = "evolve", !.pc = "done", !.tid = tokenId,
                    !.uri = metadataUri, !.resp = EvolveBadRequest]]
     ELSE /\ CanSend
          /\ req' = [req EXCEPT ![r] = [IdleReq EXCEPT
                       !.kind = "evolve", !.pc = "populate", !.tid = tokenId,
                       !.uri = metadataUri,
                       !.hash = EvolveHash(tokenId, metadataUri)]]
  /\ UNCHANGED <<variant, txs, mined, records, pinned>>

\* the evolve answer of index.js, which leaves tokenId and metadataUri out
EvolveResultShort(q) ==
  [NoResp EXCEPT !.status = 200, !.success = "true", !.txHash = q.tx]

\* res.json({ success: true, txHash, tokenId, metadataUri })
EvolveResult(q) ==
  [NoResp EXCEPT !.status = 200, !.success = "true", !.txHash = q.tx,
                 !.tokenId = q.tid, !.metadataUri = q.uri]

\* an evolveNFT that answers without awaiting tx.wait()
EvolveWaitNoAwait(r) ==
  /\ variant = "part_000"
  /\ req[r].kind = "evolve"
  /\ req[r].pc = "wait"
  /\ req' = Respond(r,
       IF txs[req[r].tx].status # "reverted"
       THEN EvolveResult(req[r])
       ELSE CatchBody(req[r], ErrReverted))
  /\ UNCHANGED <<variant, txs, mined, records, pinned>>

\* await tx.wait() returns or throws; the handler answers
EvolveWait(r) ==
  /\ variant = "part_000"
  /\ req[r].kind = "evolve"
  /\ req[r].pc = "wait"
  /\ Mined(req[r])
  /\ req' = Respond(r,
       IF txs[req[r].tx].status = "success"
       THEN EvolveResult(req[r])
       ELSE CatchBody(req[r], ErrReverted))
  /\ UNCHANGED <<variant, txs, mined, records, pinned>>

\* ---------------------------------------------------- GET /token/:tokenId
TokenReceive(r, tokenId) ==
  /\ Free(r)
  /\ req' = [req EXCEPT ![r] = [IdleReq EXCEPT
               !.kind = "token", !.pc = "call", !.tid = tokenId]]
  /\ UNCHANGED <<variant, txs, mined, records, pinned>>

\* await getTokenURI(tokenId) returns or throws; the handler answers
TokenCall(r) ==
  /\ req[r].kind = "token"
  /\ req[r].pc = "call"
  /\ \/ req' = Respond(r, CatchBody(req[r], ErrNetwork))
     \/ req' = Respond(r,
          IF getTokenURI(req[r].tid) = Undefined
          THEN CatchBody(req[r], ErrReverted)
          ELSE [NoResp EXCEPT !.status = 200, !.success = "true",
                              !.tokenId = req[r].tid,
                              !.uri = getTokenURI(req[r].tid)])
  /\ UNCHANGED <<variant, txs, mined, records, pinned>>

\* ------------------------------------------------------------- HEAD /ping
Ping(r) ==
  /\ Free(r)
  /\ req' = [req EXCEPT ![r] = [IdleReq EXCEPT
               !.kind = "ping", !.pc = "done",
               !.resp = [NoResp EXCEPT !.status = 200]]]
  /\ UNCHANGED <<variant, txs, mined, records, pinned>>

\* ------------------------------------------------------ the Pinata store
\* the uploaded file of a multipart request, and its `attributes` field:
\* the JSON text "[1]" or the malformed text "["
FileA == <<70>>
AttrJson == <<91, 49, 93>>
AttrBad == <<91>>
FileValues == {Undefined, FileA}
AttrValues == {AttrJson, AttrBad}

\* JSON.parse accepts these texts and throws on any other
JsonTexts == {AttrJson, <<91, 93>>, <<123, 125>>}
JsonParses(text) == text \in JsonTexts

\* response.data.IpfsHash of pinFileToIPFS: "Qf" + the file's bytes
uploadImageToPinata(fileBuffer) == <<81, 102>> \o fileBuffer

\* response.data.IpfsHash of pinJSONToIPFS: "Qm" + a digest of the document,
\* here the name's suffix and the attributes' text
uploadJSONToPinata(jsonData) == <<81, 109>> \o jsonData.name \o jsonData.attributes

\* part_000 /upload-image: attributes ? JSON.parse(attributes) : []
UploadMetadata(q, imageCid) ==
  [name |-> <<85>>, image |-> IpfsUri(imageCid),
   attributes |-> IF Truthy(q.attributes) THEN q.attributes ELSE <<91, 93>>]

\* index.js /evolve: name `Evolved NFT #${tokenId}`,
\* attributes ? JSON.parse(attributes) : {}
EvolveMetadata(q, imageCid) ==
  [name |-> <<35>> \o q.tid, image |-> IpfsUri(imageCid),
   attributes |-> IF Truthy(q.attributes) THEN q.attributes ELSE <<123, 125>>]

\* does building the metadata object throw (JSON.parse of a malformed text)
MetadataThrows(q) == Truthy(q.attributes) /\ ~JsonParses(q.attributes)

\* ------------------------------------------- part_000: POST /upload-image
UploadBadRequest ==
  [NoResp EXCEPT !.status = 400,
                 !.error = "No file uploaded. Field name must be 'file'."]

\* if (!req.file) return 400
UploadReceive(r, file, attributes) ==
  /\ variant = "part_000"
  /\ Free(r)
  /\ req' = [req EXCEPT ![r] =
       IF ~Truthy(file)
       THEN [IdleReq EXCEPT !.kind = "upload", !.pc = "done",
                            !.resp = UploadBadRequest]
       ELSE [IdleReq EXCEPT !.kind = "upload", !.pc = "pinFile", !.file = file,
                            !.attributes = attributes]]
  /\ UNCHANGED <<variant, txs, mined, records, pinned>>

\* await uploadImageToPinata(...), then the metadata object is built
UploadPinFile(r) ==
  /\ variant = "part_000"
  /\ req[r].kind = "upload"
  /\ req[r].pc = "pinFile"
  /\ \/ /\ req' = Respond(r, CatchBody(req[r], ErrNetwork))
        /\ pinned' = pinned
     \/ /\ pinned' = pinned \cup {uploadImageToPinata(req[r].file)}
        /\ req' = IF MetadataThrows(req[r])
                  THEN Respond(r, CatchBody(req[r], "Unexpected end of JSON input"))
                  ELSE [req EXCEPT ![r].pc = "pinJSON",
                                   ![r].imageCid = uploadImageToPinata(req[r].file)]
  /\ UNCHANGED <<variant, txs, mined, records>>

\* an /upload-image that also mints the uploaded metadata
UploadPinJSONMints(r) ==
  /\ variant = "part_000"
  /\ req[r].kind = "upload"
  /\ req[r].pc = "pinJSON"
  /\ LET metadataCid == uploadJSONToPinata(UploadMetadata(req[r], req[r].imageCid))
     IN /\ pinned' = pinned \cup {metadataCid}
        /\ txs' = IF Len(txs) < MaxTx
                  THEN Append(txs, [TxOf(req[r]) EXCEPT !.fn = "safeMint",
                                      !.to = AddrA, !.uri = IpfsUri(metadataCid)])
                  ELSE txs
        /\ req' = Respond(r,
             [NoResp EXCEPT !.status = 200, !.success = "true",
                            !.imageCid = req[r].imageCid,
                            !.metadataCid = metadataCid,
                            !.metadataUri = IpfsUri(metadataCid)])
  /\ UNCHANGED <<variant, mined, records>>

\* await uploadJSONToPinata(metadata); res.json({ success: true, ... })
UploadPinJSON(r) ==
  /\ variant = "part_000"
  /\ req[r].kind = "upload"
  /\ req[r].pc = "pinJSON"
  /\ \/ /\ req' = Respond(r, CatchBody(req[r], ErrNetwork))
        /\ pinned' = pinned
     \/ LET metadataCid == uploadJSONToPinata(UploadMetadata(req[r], req[r].imageCid))
        IN /\ pinned' = pinned \cup {metadataCid}
           /\ req' = Respond(r,
                [NoResp EXCEPT !.status = 200, !.success = "true",
                               !.imageCid = req[r].imageCid,
                               !.metadataCid = metadataCid,
                               !.metadataUri = IpfsUri(metadataCid)])
  /\ UNCHANGED <<variant, txs, mined, records>>

\* ------------------------------------------------- index.js: POST /mint
IdxMintValid(to, metadataUri) == Truthy(to) /\ Truthy(metadataUri)

\* the hash index.js mintNFT passes to safeMint
IdxMintHash(to, metadataUri) == HashBinder(metadataUri)

IdxMintReceive(r, to, metadataUri) ==
  /\ variant = "index"
  /\ Free(r)
  /\ IF ~IdxMintValid(to, metadataUri)
     THEN req' = [req EXCEPT ![r] = [IdleReq EXCEPT
                    !.kind = "mint", !.pc = "done", !.to = to,
                    !.uri = metadataUri, !.resp = MintBadRequest]]
     ELSE /\ CanSend
          /\ req' = [req EXCEPT ![r] = [IdleReq EXCEPT
                       !.kind = "mint", !.pc = "populate", !.to = to,
                       !.uri = metadataUri,
                       !.hash = IdxMintHash(to, metadataUri)]]
  /\ UNCHANGED <<variant, txs, mined, records, pinned>>

\* await tx.wait(); res.json({ success: true, txHash, metadataUri })
IdxMintWait(r) ==
  /\ variant = "index"
  /\ req[r].kind = "mint"
  /\ req[r].pc = "wait"
  /\ Mined(req[r])
  /\ req' = Respond(r,
       IF txs[req[r].tx].status = "success"
       THEN [NoResp EXCEPT !.status = 200, !.success = "true",
                           !.txHash = req[r].tx, !.metadataUri = req[r].uri]
       ELSE CatchBody(req[r], ErrReverted))
  /\ UNCHANGED <<variant, txs, mined, records, pinned>>

\* -------------------------------------- index.js: POST /evolve/:tokenId
\* the hash index.js evolveNFT passes to commitEvolution
IdxEvolveHash(tokenId, metadataUri) == HashBinder(metadataUri)

\* req.file.buffer throws a TypeError when no file was sent
FileEvolveReceive(r, tokenId, file, attributes) ==
  /\ variant = "index"
  /\ Free(r)
  /\ IF ~Truthy(file)
     THEN req' = [req EXCEPT ![r] = [IdleReq EXCEPT
                    !.kind = "evolveFile", !.pc = "done", !.tid = tokenId,
                    !.resp = [NoResp EXCEPT !.status = 500, !.success = "false",
                       !.error = "Cannot read properties of undefined"]]]
     ELSE /\ CanSend
          /\ req' = [req EXCEPT ![r] = [IdleReq EXCEPT
                       !.kind = "evolveFile", !.pc = "pinFile", !.tid = tokenId,
                       !.file = file, !.attributes = attributes]]
  /\ UNCHANGED <<variant, txs, mined, records, pinned>>

\* 1. upload image, 2. create metadata
FileEvolvePinFile(r) ==
  /\ variant = "index"
  /\ req[r].kind = "evolveFile"
  /\ req[r].pc = "pinFile"
  /\ \/ /\ req' = Respond(r, CatchBody(req[r], ErrNetwork))
        /\ pinned' = pinned
     \/ /\ pinned' = pinned \cup {uploadImageToPinata(req[r].file)}
        /\ req' = IF MetadataThrows(req[r])
                  THEN Respond(r, CatchBody(req[r], "Unexpected end of JSON input"))
                  ELSE [req EXCEPT ![r].pc = "pinJSON",
                                   ![r].imageCid = uploadImageToPinata(req[r].file)]
  /\ UNCHANGED <<variant, txs, mined, records>>

\* a file evolve that commits the image's reference, not the metadata's
FileEvolvePinJSONImage(r) ==
  /\ variant = "index"
  /\ req[r].kind = "evolveFile"
  /\ req[r].pc = "pinJSON"
  /\ \/ /\ req' = Respond(r, CatchBody(req[r], ErrNetwork))
        /\ pinned' = pinned
     \/ LET metadataCid == uploadJSONToPinata(EvolveMetadata(req[r], req[r].imageCid))
        IN /\ pinned' = pinned \cup {metadataCid}
           /\ req' = [req EXCEPT ![r].pc = "populate",
                        ![r].uri = IpfsUri(req[r].imageCid),
                        ![r].hash = IdxEvolveHash(req[r].tid, IpfsUri(req[r].imageCid))]
  /\ UNCHANGED <<variant, txs, mined, records>>

\* 3. upload metadata JSON, 4. evolveNFT(tokenId, `ipfs://${metadataCid}`)
FileEvolvePinJSON(r) ==
  /\ variant = "index"
  /\ req[r].kind = "evolveFile"
  /\ req[r].pc = "pinJSON"
  /\ \/ /\ req' = Respond(r, CatchBody(req[r], ErrNetwork))
        /\ pinned' = pinned
     \/ LET metadataCid == uploadJSONToPinata(EvolveMetadata(req[r], req[r].imageCid))
        IN /\ pinned' = pinned \cup {metadataCid}
           /\ req' = [req EXCEPT ![r].pc = "populate",
                        ![r].uri = IpfsUri(metadataCid),
                        ![r].hash = IdxEvolveHash(req[r].tid, IpfsUri(metadataCid))]
  /\ UNCHANGED <<variant, txs, mined, records>>

\* await tx.wait(); res.json({ success: true, txHash, imageCid, metadataCid })
FileEvolveWait(r) ==
  /\ variant = "index"
  /\ req[r].kind = "evolveFile"
  /\ req[r].pc = "wait"
  /\ Mined(req[r])
  /\ req' = Respond(r,
       IF txs[req[r].tx].status = "success"
       THEN [NoResp EXCEPT !.status = 200, !.success = "true",
                           !.txHash = req[r].tx, !.imageCid = req[r].imageCid,
                           !.metadataCid = SubSeq(req[r].uri, Len(IpfsScheme) + 1,
                                                  Len(req[r].uri))]
       ELSE CatchBody(req[r], ErrReverted))
  /\ UNCHANGED <<variant, txs, mined, records, pinned>>

\* the response has been sent; the slot takes the next request
Retire(r) ==
  /\ req[r].pc = "done"
  /\ req' = [req EXCEPT ![r] = IdleReq]
  /\ UNCHANGED <<variant, txs, mined, records, pinned>>

Next ==
  \/ Mine
  \/ \E r \in Reqs :
       \/ \E to \in ToValues, u \in MintUriValues : MintReceive(r, to, u)
       \/ \E tid \in TidValues, u \in UriValues : EvolveReceive(r, tid, u)
       \/ \E tid \in TidValues : TokenReceive(r, tid)
       \/ ContractPopulate(r)
       \/ ContractBroadcast(r)
       \/ MintWait(r)
       \/ EvolveWait(r)
       \/ TokenCall(r)
       \/ Ping(r)
       \/ \E f \in FileValues, a \in AttrValues : UploadReceive(r, f, a)
       \/ UploadPinFile(r)
       \/ UploadPinJSON(r)
       \/ \E to \in ToValues, u \in MintUriValues : IdxMintReceive(r, to, u)
       \/ IdxMintWait(r)
       \/ \E tid \in TidValues, f \in FileValues, a \in AttrValues :
            FileEvolveReceive(r, tid, f, a)
       \/ FileEvolvePinFile(r)
       \/ FileEvolvePinJSON(r)
       \/ FileEvolveWait(r)
       \/ Retire(r)

Spec == Init /\ [][Next]_vars

\* what a request's handler does once it has been accepted; Node's event loop
\* runs every continuation whose awaited RPC or HTTP call has settled
HandlerStep(r) ==
  \/ ContractPopulate(r) \/ ContractBroadcast(r)
  \/ MintWait(r) \/ EvolveWait(r) \/ TokenCall(r)
  \/ UploadPinFile(r) \/ UploadPinJSON(r)
  \/ IdxMintWait(r)
  \/ FileEvolvePinFile(r) \/ FileEvolvePinJSON(r) \/ FileEvolveWait(r)

\* handlers are scheduled fairly; the ledger owes no one a block
FairSpec == Spec /\ \A r \in Reqs : WF_vars(HandlerStep(r))

\* ------------------------------------------------------------ properties
Done(r) == req[r].pc = "done"
Succeeded(r) == Done(r) /\ req[r].resp.success = "true"
TxIds == 1..Len(txs)

\* references whose content the Pinata store holds
StoredRefs == {IpfsUri(cid) : cid \in pinned}

\* C1: every safeMint / commitEvolution submission carries a reference whose
\* content is known to be in the content store
C1_SubmissionsVerified ==
  \A i \in TxIds : txs[i].uri \in StoredRefs

\* C2: the hash the ledger stores for a record is HashBinder of the record's
\* current reference, after every confirmed mint and evolve
C2_HashBound ==
  \A id \in 1..Len(records) : records[id].hash = HashBinder(records[id].uri)

\* a mint and an evolve of this run have both been confirmed
C2_Witness ==
  /\ \E i \in TxIds : txs[i].fn = "safeMint" /\ txs[i].status = "success"
  /\ \E i \in TxIds : txs[i].fn = "commitEvolution" /\ txs[i].status = "success"
                      /\ records[txs[i].tokenId].uri = txs[i].uri

\* C3: two identical mint requests (same owner, same reference) in flight at
\* the same time share one ledger submission
C3_NoDuplicateSubmission ==
  \A r1, r2 \in Reqs :
    ( /\ r1 # r2
      /\ req[r1].kind = "mint" /\ req[r2].kind = "mint"
      /\ req[r1].pc = "wait" /\ req[r2].pc = "wait"
      /\ req[r1].to = req[r2].to /\ req[r1].uri = req[r2].uri )
    => req[r1].tx = req[r2].tx

\* C4: an evolve that reaches evolveNFT for a token id the ledger does not
\* hold broadcasts no transaction and is answered 500 with success:false
C4_EvolveUnknownFails ==
  \A r \in Reqs :
    ( /\ req[r].kind = "evolve"
      /\ EvolveValid(req[r].uri)
      /\ ~Exists(getBigInt(req[r].tid)) )
    => /\ req[r].pc \in {"populate", "done"}
       /\ req[r].tx = 0
       /\ Done(r) => req[r].resp.status = 500 /\ req[r].resp.success = "false"

\* an evolve of token "2", which the ledger does not hold, has been answered
C4_Witness ==
  \E r \in Reqs :
    /\ req[r].kind = "evolve" /\ Done(r) /\ EvolveValid(req[r].uri)
    /\ ~Exists(getBigInt(req[r].tid))
    /\ req[r].resp.error = ErrReverted

\* the id the ledger assigned to a confirmed mint request
AssignedId(r) == txs[req[r].tx].assigned

\* has an evolve of token id been confirmed
EvolveConfirmed(id) ==
  \E i \in TxIds : /\ txs[i].fn = "commitEvolution" /\ txs[i].tokenId = id
                   /\ txs[i].status = "success"

\* C5 as stated: once a mint with reference r has succeeded, a read of the
\* id assigned to it returns r
C5_ReadReturnsMinted ==
  \A r \in Reqs :
    (req[r].kind = "mint" /\ Succeeded(r))
    => getTokenURI(toDecimal(AssignedId(r))) = req[r].uri

\* C5 amended: once a mint with reference r has succeeded, a read of the id
\* assigned to it returns r as long as no evolve of that id has been confirmed
C5_ReadReturnsMintedUntilEvolved ==
  \A r \in Reqs :
    (req[r].kind = "mint" /\ Succeeded(r) /\ ~EvolveConfirmed(AssignedId(r)))
    => getTokenURI(toDecimal(AssignedId(r))) = req[r].uri

\* a mint has succeeded and its token reads back as the minted reference
C5_Witness ==
  \E r \in Reqs :
    /\ req[r].kind = "mint" /\ Succeeded(r)
    /\ AssignedId(r) = Len(records)
    /\ getTokenURI(toDecimal(AssignedId(r))) = UriA

\* the last confirmed commitEvolution of token id, 0 when there is none
LastEvolve(id) ==
  LET S == {i \in 1..mined : /\ txs[i].fn = "commitEvolution"
                             /\ txs[i].tokenId = id /\ txs[i].status = "success"}
  IN IF S = {} THEN 0 ELSE CHOOSE i \in S : \A j \in S : j <= i

C7_MintValidation ==
  /\ \A r \in Reqs :
       (req[r].kind = "mint" /\ (~Truthy(req[r].to) \/ ~Truthy(req[r].uri)))
       => /\ Done(r)
          /\ req[r].resp.status = 400
          /\ req[r].resp.error = "to and metadataUri are required"
          /\ req[r].tx = 0
  /\ \A i \in TxIds :
       txs[i].fn = "safeMint" => Truthy(txs[i].to) /\ Truthy(txs[i].uri)

\* a mint without `to` and a mint with an empty metadataUri have been answered
C7_Witness ==
  /\ \E r \in Reqs : req[r].kind = "mint" /\ Done(r) /\ req[r].to = Undefined
                     /\ req[r].uri = UriA /\ txs = <<>>
  /\ \E r \in Reqs : req[r].kind = "mint" /\ Done(r) /\ req[r].to = AddrA
                     /\ req[r].uri = EmptyStr

\* C8: a request whose transaction is broadcast and stays unconfirmed is in
\* the end answered with TimeoutError and its transaction identifier
C8_TimeoutReported ==
  \A r \in Reqs :
    (req[r].pc = "wait" /\ ~Mined(req[r]))
    ~> \/ Mined(req[r])
       \/ /\ Done(r)
          /\ req[r].resp.error = "TimeoutError"
          /\ req[r].resp.txHash = req[r].tx

\* C9: a mint whose confirmed receipt carries no Transfer event is not
\* answered with success and never with the placeholder id "unknown"
C9_ParseErrorReported ==
  \A r \in Reqs :
    ( /\ variant = "part_000" /\ req[r].kind = "mint" /\ Done(r)
      /\ req[r].tx # 0
      /\ txs[req[r].tx].status = "success"
      /\ FindTransfer(txs[req[r].tx].logs) = 0 )
    => /\ req[r].resp.success # "true"
       /\ req[r].resp.tokenId # UnknownStr

\* the token a request's transaction wrote or was to write
TargetId(q) ==
  IF q.kind = "mint" THEN txs[q.tx].assigned ELSE getBigInt(q.tid)

\* C10: a mint or evolve is answered with success only when the hash the
\* ledger holds for its token equals the hash the request computed
C10_HashVerifiedBeforeSuccess ==
  [][\A r \in Reqs :
       (req[r].pc = "wait" /\ req'[r].pc = "done"
         /\ req'[r].resp.success = "true")
       => records[TargetId(req[r])].hash = req[r].hash]_vars

\* C11: ledger submissions of the shared wallet are serialized: no request
\* acquires the wallet's nonce while another holds one it has not yet
\* broadcast, so no two submissions carry the same nonce
C11_SubmissionsSerialized ==
  \A r1, r2 \in Reqs :
    (r1 # r2 /\ req[r1].pc = "broadcast" /\ req[r2].pc = "broadcast")
    => req[r1].nonce # req[r2].nonce

\* C12: every failure response has a status of 400 or more and a body with
\* success:false and an error message
C12_FailureShape ==
  \A r \in Reqs :
    (Done(r) /\ req[r].resp.status # 200)
    => /\ req[r].resp.status >= 400
       /\ req[r].resp.success = "false"
       /\ req[r].resp.error # "none"

\* C13: a read of a token id the ledger does not hold is answered 404
C13_ReadUnknownIs404 ==
  \A r \in Reqs :
    (req[r].kind = "token" /\ Done(r) /\ ~Exists(getBigInt(req[r].tid))
      /\ req[r].resp.error = ErrReverted)
    => req[r].resp.status = 404

\* the request's transaction has been executed and reverted
TxReverted(q) == q.tx \in 1..mined /\ txs[q.tx].status = "reverted"

\* C14: a request whose submission reverted, at gas estimation or on the
\* ledger, makes no further contract call: its only next step is the failure
\* answer, and an answered request never sends again
C14_RevertNotRetried ==
  [][\A r \in Reqs :
       /\ (req[r].pc = "wait" /\ TxReverted(req[r]) /\ req'[r] # req[r])
          => /\ req'[r].pc = "done"
             /\ req'[r].tx = req[r].tx
             /\ req'[r].resp.status = 500
             /\ req'[r].resp.success # "true"
             /\ req'[r].resp.error = ErrReverted
             /\ txs' = txs
       /\ (req[r].pc = "populate" /\ EstimateReverts(req[r]) /\ req'[r] # req[r])
          => /\ req'[r].pc = "done"
             /\ req'[r].tx = 0
             /\ req'[r].resp.status = 500
             /\ txs' = txs
       /\ (req[r].pc = "done" /\ req'[r] # req[r])
          => req'[r] = IdleReq /\ txs' = txs]_vars

\* a mint whose transaction reverted on the ledger has been answered 500
C14_Witness ==
  \E r \in Reqs :
    /\ req[r].kind = "mint" /\ Done(r) /\ TxReverted(req[r])
    /\ req[r].resp.error = ErrReverted
    /\ Len(txs) = 1

\* C15: every accepted mint or evolve is answered in the end, whether or not
\* the ledger ever confirms its transaction
C15_EveryOperationAnswered ==
  \A r \in Reqs :
    (req[r].kind \in {"mint", "evolve", "evolveFile"} /\ req[r].pc # "done")
    ~> Done(r)

\* the content identifier the metadata upload of a file evolve returns
EvolveMetadataCid(q) == uploadJSONToPinata(EvolveMetadata(q, q.imageCid))

\* C16: a file evolve submits commitEvolution only after the image and the
\* metadata are both in the content store, with the reference built from the
\* metadata upload's identifier and its hash; a failed upload submits nothing
C16_FileEvolveOrder ==
  \A r \in Reqs :
    req[r].kind = "evolveFile"
    => /\ req[r].pc \in {"pinFile", "pinJSON"} => req[r].tx = 0
       /\ req[r].pc = "pinJSON" => req[r].imageCid \in pinned
       /\ req[r].pc \in {"populate", "broadcast", "wait"}
          => /\ req[r].imageCid \in pinned
             /\ EvolveMetadataCid(req[r]) \in pinned
             /\ req[r].uri = IpfsUri(EvolveMetadataCid(req[r]))
             /\ req[r].hash = HashBinder(req[r].uri)
       /\ req[r].pc \in {"populate", "broadcast"} => req[r].tx = 0
       /\ req[r].tx # 0
          => /\ txs[req[r].tx].fn = "commitEvolution"
             /\ txs[req[r].tx].uri = req[r].uri
             /\ txs[req[r].tx].hash = req[r].hash
             /\ req[r].uri \in StoredRefs
       /\ Succeeded(r)
          => /\ Mined(req[r])
             /\ txs[req[r].tx].status = "success"
             /\ req[r].uri = IpfsUri(req[r].resp.metadataCid)
             /\ {req[r].resp.imageCid, req[r].resp.metadataCid} \subseteq pinned
       /\ (Done(r) /\ req[r].resp.error = ErrNetwork) => req[r].tx = 0

\* a file evolve has been confirmed and answered with both identifiers
C16_Witness ==
  \E r \in Reqs :
    /\ req[r].kind = "evolveFile" /\ Succeeded(r)
    /\ txs[req[r].tx].fn = "commitEvolution"
    /\ txs[req[r].tx].status = "success"
    /\ req[r].resp.metadataCid \in pinned

\* C17: a request whose attributes field is not valid JSON causes no upload
\* to the content store and no ledger submission
C17_ValidationBeforeWork ==
  [][\A r \in Reqs :
       ( /\ req[r].kind \in {"upload", "evolveFile"}
         /\ MetadataThrows(req[r])
         /\ req'[r] # req[r] )
       => pinned' = pinned /\ txs' = txs]_vars

\* does the request's transaction match what the request asked for
OwnTx(q) ==
  /\ q.tx \in TxIds
  /\ txs[q.tx].uri = q.uri
  /\ txs[q.tx].fn = (IF q.kind = "mint" THEN "safeMint" ELSE "commitEvolution")

\* C18: a mint or evolve is answered with success only once its own
\* transaction has a receipt that reports success
C18_SuccessAfterConfirmation ==
  \A r \in Reqs :
    (req[r].kind \in {"mint", "evolve", "evolveFile"} /\ Succeeded(r))
    => /\ OwnTx(req[r])
       /\ Mined(req[r])
       /\ txs[req[r].tx].status = "success"
       /\ req[r].resp.txHash = req[r].tx

\* an evolve has been answered with success while another request's
\* transaction is still pending
C18_Witness ==
  \E r \in Reqs :
    /\ req[r].kind = "evolve" /\ Succeeded(r)
    /\ txs[req[r].tx].status = "success"
    /\ Len(txs) > mined

\* C19: the tokenId a successful mint reports is the id the ledger assigned
\* to its own transaction, and two successful mints report different ids
C19_MintReportsAssignedId ==
  /\ \A r \in Reqs :
       (variant = "part_000" /\ req[r].kind = "mint" /\ Succeeded(r))
       => req[r].resp.tokenId = toDecimal(AssignedId(r))
  /\ \A r1, r2 \in Reqs :
       ( /\ variant = "part_000" /\ r1 # r2
         /\ req[r1].kind = "mint" /\ Succeeded(r1)
         /\ req[r2].kind = "mint" /\ Succeeded(r2) )
       => req[r1].resp.tokenId # req[r2].resp.tokenId

\* the routes that only read or only upload
ReadOnlyKinds == {"ping", "token", "upload"}

\* C20: no step of a ping, a token read or an upload-image request changes
\* the ledger; a transaction is only ever sent by a mint or evolve request
C20_OnlyMintEvolveWrite ==
  [][/\ \A r \in Reqs :
          ( /\ req'[r] # req[r]
            /\ (req[r].kind \in ReadOnlyKinds \/ req'[r].kind \in ReadOnlyKinds) )
          => UNCHANGED <<txs, records, mined>>
     /\ Len(txs') # Len(txs)
        => \E r \in Reqs : /\ req[r].kind \in {"mint", "evolve", "evolveFile"}
                           /\ req[r].pc = "broadcast"
                           /\ req'[r].tx = Len(txs')]_vars

\* an upload has succeeded next to an answered read, the ledger untouched
C20_Witness ==
  \E r1, r2 \in Reqs :
    /\ req[r1].kind = "upload" /\ Succeeded(r1)
    /\ req[r2].kind = "token" /\ Done(r2)
    /\ txs = <<>> /\ records = <<GenesisRecord>>

====
